---------------------------- MODULE Spec2Model ----------------------------
(***************************************************************************)
(* The connection orchestrator of spotty (src/src/main.rs, struct Main     *)
(* and its Future::poll) together with the LMS playback notifier           *)
(* (src/src/lms.rs), as a state machine.                                   *)
(*                                                                         *)
(* An Option<T> of the source is a set with at most one element: None is   *)
(* {} and Some(x) is {x}.  One pass of the loop in Main::poll is one       *)
(* action, Pass: the branches discovery -> connect -> signal -> task ->    *)
(* events applied in this order to the state the pass starts in.  The      *)
(* environment (network, operating system, protocol tasks, clock) acts     *)
(* between passes: what becomes ready during a pass before its source is   *)
(* polled is ready when the pass starts, what becomes ready after its      *)
(* source was polled is seen by the next pass.                             *)
(***************************************************************************)
EXTENDS Naturals, Sequences, FiniteSets

\* ------------------------------------------------------------- bounds
MaxTasks   == 6    \* protocol tasks (Spirc::new) spawned in one run
MaxSignals == 2    \* ctrl-c signals delivered in one run
MaxInputs  == 2    \* discovery events, player events and clock advances in
                   \* one run, taken together

\* ------------------------------------------------- program constants
RateLimit == 5       \* auto_connect_times.len() >= 5
Window    == 600     \* (now - auto_connect_times[0]).as_secs() > 600

None == {}
Some(x) == {x}
The(opt) == CHOOSE x \in opt : TRUE

SetupCredentials     == "c0"
DiscoveryCredentials == {"c1"}
PlayerEventKinds     == {"Changed", "Started", "Stopped", "Volume", "Seek"}

\* PlayerEvent values.  PlainEvents holds one value of every variant,
\* PlayerEvents more than one where the variant carries track identifiers.
PlainEvents ==
    { [kind |-> "Changed", old_track_id |-> "t1", new_track_id |-> "t2"],
      [kind |-> "Started", track_id |-> "t1"],
      [kind |-> "Stopped", track_id |-> "t1"],
      [kind |-> "Volume", volume |-> 50],
      [kind |-> "Seek", position |-> 7] }
PlayerEvents ==
    PlainEvents \cup
    { [kind |-> "Changed", old_track_id |-> "t2", new_track_id |-> "t1"],
      [kind |-> "Started", track_id |-> "t2"] }
TickSteps            == {Window, Window + 1}

VARIABLES
    setup,            \* the Setup value main() got from the command line
    lms,              \* the LMS struct (base_url, player_mac)
    self,             \* the Main struct
    pc,               \* where the program is: "main_authenticate", "running",
                      \* "suspended", "http", "done"
    progress,         \* the local `progress` of the pass that waits in LMS::request
    outcome,          \* how the process ended: "none", "ok", "panic"
    now,              \* Instant::now(), in seconds
    discovery_queue,  \* credentials the discovery stream holds ready
    connect_result,   \* the in-flight Session::connect: "pending", "ok", "err"
    signal_pending,   \* ctrl-c signals not yet polled
    signals_seen,     \* ctrl-c signals the loop has polled
    ntasks,           \* protocol tasks created so far (task ids are 1..ntasks)
    running,          \* protocol tasks that have not completed
    spawned,          \* protocol tasks handed to handle.spawn (detached)
    shutdown_asked,   \* protocol tasks whose Spirc got shutdown()
    event_queue,      \* events waiting in the current player event channel
    chan_parked,      \* the last poll of the channel returned NotReady
    nevents,          \* player events produced so far
    forwarded,        \* events given to lms.signal_event
    http_calls,       \* POST requests issued by LMS::request
    attempts,         \* times of the latest automatic reconnects (at most RateLimit + 2)
    attempts_since_discovery, \* the same, emptied by every discovery event
    drops_since_discovery,    \* times of the unexpected drops since the last discovery event
    ndiscovered,      \* discovery events the loop has polled
    succeeded         \* credentials of the latest connect found to have succeeded

vars == << setup, lms, self, pc, progress, outcome, now, discovery_queue,
           connect_result, signal_pending, signals_seen, ntasks, running,
           spawned, shutdown_asked, event_queue, chan_parked, nevents,
           forwarded, http_calls, attempts, attempts_since_discovery,
           drops_since_discovery, ndiscovered, succeeded >>

\* ---------------------------------------------------------- lms.rs
\* LMS::new: base_url always becomes Some(..), with localhost:9000 as default.
LMSNew(base_url, player_mac) ==
    [ base_url   |-> Some(IF base_url = None THEN "localhost:9000" ELSE The(base_url)),
      player_mac |-> player_mac ]

\* is_configured that looks at the address alone.
is_configured_AddressOnly(l) == l.base_url # None

\* LMS::is_configured
is_configured(l) == l.base_url # None /\ l.player_mac # None

\* LMS::request: the body of the POST it issues (what the JSON text of line
\* 111 holds), or None when it issues none.
request(l, command) ==
    IF ~is_configured(l) THEN None
    ELSE IF l.base_url # None /\ l.player_mac # None
    THEN Some([ id |-> 1, method |-> "slim.request",
                params |-> << The(l.player_mac), command >> ])
    ELSE None

\* LMS::play, LMS::stop, LMS::change, LMS::volume
play(l) == request(l, << "spottyconnect", "start" >>)
stop(l) == request(l, << "spottyconnect", "stop" >>)
change(l) == request(l, << "spottyconnect", "change" >>)
volume(l, v) == request(l, << "spottyconnect", "volume", v >>)

\* LMS::signal_event: the track identifiers and the position of the event
\* go to the debug log only.
signal_event(l, event) ==
    CASE event.kind = "Changed" -> change(l)
      [] event.kind = "Started" -> play(l)
      [] event.kind = "Stopped" -> stop(l)
      [] event.kind = "Volume"  -> volume(l, event.volume)
      [] event.kind = "Seek"    -> change(l)

\* --------------------------------------------------------- main.rs
\* Main::credentials without self.last_credentials = Some(credentials).
credentials_NoRetain(s, creds) ==
    [ s EXCEPT !.connect          = Some(creds),
               !.spirc            = None,
               !.spirc_task       = None ]

\* Main::credentials without mem::replace(&mut self.spirc_task, None): the
\* protocol task stays owned while the new connect is in flight.
credentials_KeepsTask(s, creds) ==
    [ s EXCEPT !.last_credentials = Some(creds),
               !.connect          = Some(creds),
               !.spirc            = None ]

\* Main::credentials that keeps the first credentials it was given as
\* last_credentials.
credentials_KeepsFirst(s, creds) ==
    [ s EXCEPT !.last_credentials = IF @ = None THEN Some(creds) ELSE @,
               !.connect          = Some(creds),
               !.spirc            = None,
               !.spirc_task       = None ]

\* Main::credentials, on the Main struct.  The task it takes out of
\* spirc_task goes to handle.spawn (see Detach).
credentials(s, creds) ==
    [ s EXCEPT !.last_credentials = Some(creds),
               !.connect          = Some(creds),
               !.spirc            = None,
               !.spirc_task       = None ]

\* The tasks Main::credentials hands to handle.spawn.
Detach(s) == s.spirc_task

\* The pruning loop with >= in place of >.
RECURSIVE Prune_Inclusive(_, _)
Prune_Inclusive(times, t) ==
    IF times # << >> /\ t - times[1] >= Window
    THEN Prune_Inclusive(Tail(times), t)
    ELSE times

\* The while loop that drops the entries older than 600 seconds.
RECURSIVE Prune(_, _)
Prune(times, t) ==
    IF times # << >> /\ t - times[1] > Window
    THEN Prune(Tail(times), t)
    ELSE times

\* The refusal with > in place of >=: one reconnect too many is admitted.
TooOften_OffByOne(times) == Len(times) > RateLimit

\* Whether the reconnect policy refuses the automatic reconnect.
TooOften(times) == Len(times) >= RateLimit

\* Main::new, before the initial credentials are used.
MainNew ==
    [ spirc                |-> None,
      spirc_task           |-> None,
      connect              |-> None,
      shutdown             |-> FALSE,
      last_credentials     |-> None,
      auto_connect_times   |-> << >>,
      player_event_channel |-> None ]

\* main() runs Session::connect itself when asked to authenticate without discovery.
AuthenticateOnly(st) == st.authenticate /\ ~st.enable_discovery

Setups ==
    [ credentials      : {None, Some(SetupCredentials)},
      authenticate     : BOOLEAN,
      enable_discovery : BOOLEAN,
      lms              : {None},
      player_mac       : {None, Some("mac")} ]

\* The notifier's settings in full, under one orchestrator setting.
NotifierSetups ==
    [ credentials      : {Some(SetupCredentials)},
      authenticate     : {FALSE},
      enable_discovery : {FALSE},
      lms              : {None, Some("lms:9000")},
      player_mac       : {None, Some("mac")} ]

Start(setups) ==
    /\ setup \in setups
    /\ lms = LMSNew(setup.lms, setup.player_mac)
    /\ IF AuthenticateOnly(setup)
       THEN /\ self = [MainNew EXCEPT !.connect = setup.credentials]
            /\ pc = IF setup.credentials = None THEN "done" ELSE "main_authenticate"
            /\ outcome = IF setup.credentials = None THEN "panic" ELSE "none"
       ELSE /\ self = IF setup.credentials = None
                      THEN MainNew
                      ELSE credentials(MainNew, The(setup.credentials))
            /\ pc = "running"
            /\ outcome = "none"
    /\ progress = FALSE
    /\ now = 0
    /\ discovery_queue = << >>
    /\ connect_result = "pending"
    /\ signal_pending = 0
    /\ signals_seen = 0
    /\ ntasks = 0
    /\ running = {}
    /\ spawned = {}
    /\ shutdown_asked = {}
    /\ event_queue = << >>
    /\ chan_parked = FALSE
    /\ nevents = 0
    /\ forwarded = 0
    /\ http_calls = 0
    /\ attempts = << >>
    /\ attempts_since_discovery = << >>
    /\ drops_since_discovery = << >>
    /\ ndiscovered = 0
    /\ succeeded = None

Init == Start(Setups)

InitNotifier == Start(NotifierSetups)

\* A log with one more entry, cut to its last RateLimit + 2 entries.
Logged(log, t) ==
    IF Len(log) > RateLimit + 1 THEN Append(Tail(log), t) ELSE Append(log, t)

\* What one pass of Main::poll reads and writes, as one record: the branches
\* below take it and give it back.  ret is "none" until a branch returns
\* Ready ("ok") or panics ("panic"); blocked is set while LMS::request waits
\* in core.run(post).
PassState ==
    [ self |-> self, progress |-> FALSE, ret |-> "none", blocked |-> FALSE,
      discovery_queue |-> discovery_queue, connect_result |-> connect_result,
      signal_pending |-> signal_pending, signals_seen |-> signals_seen,
      ntasks |-> ntasks, running |-> running, spawned |-> spawned,
      shutdown_asked |-> shutdown_asked, event_queue |-> event_queue,
      chan_parked |-> chan_parked, forwarded |-> forwarded,
      http_calls |-> http_calls, attempts |-> attempts,
      attempts_since_discovery |-> attempts_since_discovery,
      drops_since_discovery |-> drops_since_discovery,
      ndiscovered |-> ndiscovered, succeeded |-> succeeded ]

\* return Ok(Async::Ready(())): core.run returns and main ends.
Return(m) == [m EXCEPT !.ret = "ok"]

\* A failed unwrap(): the process panics.
Panic(m) == [m EXCEPT !.ret = "panic"]

\* spirc.shutdown() on the handle in self.spirc, if there is one.
SpircShutdown(m) == [m EXCEPT !.shutdown_asked = @ \cup m.self.spirc]

\* The discovery branch without spirc.shutdown().
DiscoveryBranch_NoShutdown(m) ==
    IF setup.enable_discovery /\ m.discovery_queue # << >>
    THEN [ m EXCEPT
             !.discovery_queue = Tail(@),
             !.self = credentials([m.self EXCEPT !.auto_connect_times = << >>],
                                  Head(m.discovery_queue)),
             !.spawned = @ \cup Detach(m.self),
             !.connect_result = "pending",
             !.attempts_since_discovery = << >>,
             !.drops_since_discovery = << >>,
             !.ndiscovered = @ + 1,
             !.progress = TRUE ]
    ELSE m

\* The discovery branch without auto_connect_times.clear().
DiscoveryBranch_NoClear(m) ==
    IF setup.enable_discovery /\ m.discovery_queue # << >>
    THEN [ SpircShutdown(m) EXCEPT
             !.discovery_queue = Tail(@),
             !.self = credentials(m.self, Head(m.discovery_queue)),
             !.spawned = @ \cup Detach(m.self),
             !.connect_result = "pending",
             !.attempts_since_discovery = << >>,
             !.drops_since_discovery = << >>,
             !.ndiscovered = @ + 1,
             !.progress = TRUE ]
    ELSE m

\* The discovery branch that leaves a connect in flight in place instead of
\* replacing it.
DiscoveryBranch_KeepsConnect(m) ==
    IF setup.enable_discovery /\ m.discovery_queue # << >>
    THEN [ SpircShutdown(m) EXCEPT
             !.discovery_queue = Tail(@),
             !.self = [ credentials([m.self EXCEPT !.auto_connect_times = << >>],
                                    Head(m.discovery_queue))
                        EXCEPT !.connect = IF m.self.connect # None
                                           THEN m.self.connect ELSE @ ],
             !.spawned = @ \cup Detach(m.self),
             !.connect_result = IF m.self.connect # None THEN @ ELSE "pending",
             !.attempts_since_discovery = << >>,
             !.drops_since_discovery = << >>,
             !.ndiscovered = @ + 1,
             !.progress = TRUE ]
    ELSE m

\* Main::poll, the discovery branch.
DiscoveryBranch(m) ==
    IF setup.enable_discovery /\ m.discovery_queue # << >>
    THEN [ SpircShutdown(m) EXCEPT
             !.discovery_queue = Tail(@),
             !.self = credentials([m.self EXCEPT !.auto_connect_times = << >>],
                                  Head(m.discovery_queue)),
             !.spawned = @ \cup Detach(m.self),
             !.connect_result = "pending",
             !.attempts_since_discovery = << >>,
             !.drops_since_discovery = << >>,
             !.ndiscovered = @ + 1,
             !.progress = TRUE ]
    ELSE m

\* The connect branch without the test of self.authenticate.
ConnectBranch_IgnoresAuthenticate(m) ==
    IF m.ret # "none" \/ m.self.connect = None \/ m.connect_result = "pending"
    THEN m
    ELSE IF m.connect_result = "err"
    THEN Panic(m)
    ELSE [ m EXCEPT
             !.succeeded = m.self.connect,
             !.ntasks = @ + 1,
             !.self.connect = None,
             !.self.spirc = Some(m.ntasks + 1),
             !.self.spirc_task = Some(m.ntasks + 1),
             !.self.player_event_channel = Some(m.ntasks + 1),
             !.running = (@ \ m.self.spirc_task) \cup {m.ntasks + 1},
             !.event_queue = << >>,
             !.chan_parked = FALSE,
             !.connect_result = "pending",
             !.progress = TRUE ]

\* Main::poll, the connect branch.
ConnectBranch(m) ==
    IF m.ret # "none" \/ m.self.connect = None \/ m.connect_result = "pending"
    THEN m
    ELSE IF m.connect_result = "err"
    THEN Panic(m)
    ELSE IF setup.authenticate
    THEN IF ~m.self.shutdown
         THEN Return([SpircShutdown(m) EXCEPT !.self.shutdown = TRUE,
                                              !.succeeded = m.self.connect])
         ELSE [m EXCEPT !.progress = TRUE, !.succeeded = m.self.connect]
    ELSE [ m EXCEPT
             !.succeeded = m.self.connect,
             !.ntasks = @ + 1,
             !.self.connect = None,
             !.self.spirc = Some(m.ntasks + 1),
             !.self.spirc_task = Some(m.ntasks + 1),
             !.self.player_event_channel = Some(m.ntasks + 1),
             \* a SpircTask that is overwritten is dropped
             !.running = (@ \ m.self.spirc_task) \cup {m.ntasks + 1},
             !.event_queue = << >>,
             !.chan_parked = FALSE,
             !.connect_result = "pending",
             !.progress = TRUE ]

\* The signal branch in which a repeated signal only asks again.
SignalBranch_NoForceQuit(m) ==
    IF m.ret # "none" \/ m.signal_pending = 0
    THEN m
    ELSE LET got == [m EXCEPT !.signal_pending = @ - 1, !.signals_seen = @ + 1]
         IN  IF got.self.spirc # None
             THEN [ SpircShutdown(got) EXCEPT !.self.shutdown = TRUE,
                                              !.progress = TRUE ]
             ELSE Return(got)

\* Main::poll, the signal branch.
SignalBranch(m) ==
    IF m.ret # "none" \/ m.signal_pending = 0
    THEN m
    ELSE LET got == [m EXCEPT !.signal_pending = @ - 1, !.signals_seen = @ + 1]
         IN  IF ~got.self.shutdown
             THEN IF got.self.spirc # None
                  THEN [ SpircShutdown(got) EXCEPT !.self.shutdown = TRUE,
                                                   !.progress = TRUE ]
                  ELSE Return(got)
             ELSE Return(got)

\* Main::poll, the reconnect policy after an unexpected completion.
Reconnect(m, t) ==
    LET pruned  == Prune(m.self.auto_connect_times, t)
        dropped == [m EXCEPT !.self.spirc_task = None,
                             !.self.auto_connect_times = pruned,
                             !.drops_since_discovery = Logged(@, t)]
    IN  IF dropped.self.last_credentials # None /\ ~TooOften(pruned)
        THEN [ dropped EXCEPT
                 !.self = credentials(
                              [dropped.self EXCEPT !.auto_connect_times = Append(pruned, t)],
                              The(dropped.self.last_credentials)),
                 !.spawned = @ \cup Detach(dropped.self),
                 !.connect_result = "pending",
                 !.attempts = Logged(@, t),
                 !.attempts_since_discovery = Logged(@, t) ]
        ELSE dropped

\* The task branch without the test of self.shutdown: every completion is
\* taken as unexpected.
TaskBranch_IgnoresShutdown(m, t) ==
    IF m.ret # "none" \/ m.self.spirc_task = None \/ m.self.spirc_task \subseteq m.running
    THEN m
    ELSE [Reconnect(m, t) EXCEPT !.progress = TRUE]

\* The task branch that also watches the protocol tasks handed to
\* handle.spawn: the completion of any of them counts as that of the owned one.
TaskBranch_AnyTask(m, t) ==
    IF m.ret # "none" \/ (m.self.spirc_task \cup m.spawned) \subseteq m.running
    THEN m
    ELSE IF m.self.shutdown
    THEN Return(m)
    ELSE [Reconnect(m, t) EXCEPT !.progress = TRUE]

\* Main::poll, the completion of the protocol task.
TaskBranch(m, t) ==
    IF m.ret # "none" \/ m.self.spirc_task = None \/ m.self.spirc_task \subseteq m.running
    THEN m
    ELSE IF m.self.shutdown
    THEN Return(m)
    ELSE [Reconnect(m, t) EXCEPT !.progress = TRUE]

\* Main::poll, the player event branch.  When LMS::request issues the POST,
\* the thread stays in core.run(post).
EventsBranch(m) ==
    IF m.ret # "none" \/ m.self.player_event_channel = None
    THEN m
    ELSE IF m.event_queue = << >>
    THEN [m EXCEPT !.chan_parked = TRUE]
    ELSE LET sent == signal_event(lms, Head(m.event_queue)) # None
         IN  [ m EXCEPT !.event_queue = Tail(@),
                        !.chan_parked = FALSE,
                        !.forwarded = @ + 1,
                        !.http_calls = IF sent THEN @ + 1 ELSE @,
                        !.blocked = sent ]

\* Where the program is after a pass that ended with `progress`:
\* if !progress { return Ok(Async::NotReady) }, else the loop goes on.
EndPass(p) == IF p THEN "running" ELSE "suspended"

\* A source that registered the task for a wake-up has become ready.
SourceReady ==
    \/ setup.enable_discovery /\ discovery_queue # << >>
    \/ self.connect # None /\ connect_result # "pending"
    \/ signal_pending > 0
    \/ self.spirc_task # None /\ ~(self.spirc_task \subseteq running)
    \/ chan_parked /\ event_queue # << >>

\* The connect future and the protocol task notify the task of Main for their
\* own input and output as well, without becoming ready.
InnerActivity ==
    \/ self.connect # None /\ connect_result = "pending"
    \/ self.spirc_task # None /\ self.spirc_task \subseteq running

\* A caller that polls Main again after it returned Ready.
CanPoll_AfterReady ==
    \/ pc \in {"running", "done"}
    \/ pc = "suspended" /\ (SourceReady \/ InnerActivity)

\* core.run(Main::new(..)) polls Main the first time, after a pass that made
\* progress and after a wake-up, until Main::poll returns Ready.
CanPoll ==
    \/ pc = "running"
    \/ pc = "suspended" /\ (SourceReady \/ InnerActivity)

\* One pass of the loop of Main::poll.
Pass ==
    /\ CanPoll
    /\ \E m1 \in {DiscoveryBranch(PassState)} :
       \E m2 \in {ConnectBranch(m1)} :
       \E m3 \in {SignalBranch(m2)} :
       \E m4 \in {TaskBranch(m3, now)} :
       \E m  \in {EventsBranch(m4)} :
           /\ self' = m.self
           /\ discovery_queue' = m.discovery_queue
           /\ connect_result' = m.connect_result
           /\ signal_pending' = m.signal_pending
           /\ signals_seen' = m.signals_seen
           /\ ntasks' = m.ntasks
           /\ running' = m.running
           /\ spawned' = m.spawned
           /\ shutdown_asked' = m.shutdown_asked
           /\ event_queue' = m.event_queue
           /\ chan_parked' = m.chan_parked
           /\ forwarded' = m.forwarded
           /\ http_calls' = m.http_calls
           /\ attempts' = m.attempts
           /\ attempts_since_discovery' = m.attempts_since_discovery
           /\ drops_since_discovery' = m.drops_since_discovery
           /\ ndiscovered' = m.ndiscovered
           /\ succeeded' = m.succeeded
           /\ outcome' = m.ret
           /\ pc' = IF m.ret # "none" THEN "done"
                    ELSE IF m.blocked THEN "http"
                    ELSE EndPass(m.progress)
           /\ progress' = (m.ret = "none" /\ m.blocked /\ m.progress)
    /\ UNCHANGED << setup, lms, now, nevents >>

envVars   == << now, discovery_queue, connect_result, signal_pending, running,
                event_queue, nevents >>
ghostVars == << signals_seen, spawned, shutdown_asked, forwarded, http_calls,
                attempts, attempts_since_discovery, drops_since_discovery,
                ndiscovered, succeeded >>

\* LMS::request that sends the POST again when core.run(post) gives Err.
HttpReturns_RetriesOnErr ==
    /\ pc = "http"
    /\ \E result \in {"Ok", "Err"} :
           IF result = "Ok"
           THEN pc' = EndPass(progress) /\ progress' = FALSE
                /\ http_calls' = http_calls
           ELSE pc' = "http" /\ progress' = progress
                /\ http_calls' = http_calls + 1
    /\ UNCHANGED << setup, lms, self, outcome, ntasks, chan_parked >>
    /\ UNCHANGED envVars
    /\ UNCHANGED << signals_seen, spawned, shutdown_asked, forwarded,
                    attempts, attempts_since_discovery, drops_since_discovery,
                    ndiscovered, succeeded >>

\* LMS::request: core.run(post) returns; Ok and Err are both dropped, and the
\* pass ends.
HttpReturns ==
    /\ pc = "http"
    /\ \E result \in {"Ok", "Err"} : pc' = EndPass(progress)
    /\ progress' = FALSE
    /\ UNCHANGED << setup, lms, self, outcome, ntasks, chan_parked >>
    /\ UNCHANGED envVars
    /\ UNCHANGED ghostVars

\* main(): core.run(Session::connect(..)).unwrap(); println!("authorized").
MainAuthenticate ==
    /\ pc = "main_authenticate"
    /\ connect_result # "pending"
    /\ pc' = "done"
    /\ outcome' = IF connect_result = "ok" THEN "ok" ELSE "panic"
    /\ succeeded' = IF connect_result = "ok" THEN self.connect ELSE succeeded
    /\ UNCHANGED << setup, lms, self, progress, ntasks, chan_parked >>
    /\ UNCHANGED envVars
    /\ UNCHANGED << signals_seen, spawned, shutdown_asked, forwarded, http_calls,
                    attempts, attempts_since_discovery, drops_since_discovery,
                    ndiscovered >>

\* ------------------------------------------------------ environment
Alive == pc # "done"

\* The discovery events, player events and clock advances so far.
Inputs == ndiscovered + Len(discovery_queue) + nevents + now \div Window

\* A controller claims the device: the discovery stream yields credentials.
DiscoveryEvent ==
    /\ setup.enable_discovery
    /\ Inputs < MaxInputs
    /\ \E creds \in DiscoveryCredentials :
           discovery_queue' = Append(discovery_queue, creds)
    /\ UNCHANGED << setup, lms, self, pc, progress, outcome, now,
                    connect_result, signal_pending, ntasks, running,
                    event_queue, chan_parked, nevents >>
    /\ UNCHANGED ghostVars

\* The operator sends ctrl-c.
SignalArrives ==
    /\ ~AuthenticateOnly(setup)
    /\ signals_seen + signal_pending < MaxSignals
    /\ signal_pending' = signal_pending + 1
    /\ UNCHANGED << setup, lms, self, pc, progress, outcome, now,
                    discovery_queue, connect_result, ntasks, running,
                    event_queue, chan_parked, nevents >>
    /\ UNCHANGED ghostVars

\* Session::connect resolves.
ConnectCompletes ==
    /\ Alive
    /\ self.connect # None
    /\ connect_result = "pending"
    /\ \/ /\ ntasks < MaxTasks
          /\ connect_result' = "ok"
       \/ connect_result' = "err"
    /\ UNCHANGED << setup, lms, self, pc, progress, outcome, now,
                    discovery_queue, signal_pending, ntasks, running,
                    event_queue, chan_parked, nevents >>
    /\ UNCHANGED ghostVars

\* A protocol task ends, owned or detached, asked to shut down or not.
TaskCompletes ==
    /\ Alive
    /\ \E t \in running : running' = running \ {t}
    /\ UNCHANGED << setup, lms, self, pc, progress, outcome, now,
                    discovery_queue, connect_result, signal_pending, ntasks,
                    event_queue, chan_parked, nevents >>
    /\ UNCHANGED ghostVars

\* The player of the task behind the current channel sends an event.
PlayerEvent(events) ==
    /\ Alive
    /\ self.player_event_channel # None
    /\ self.player_event_channel \subseteq running
    /\ Inputs < MaxInputs
    /\ nevents' = nevents + 1
    /\ \E event \in events : event_queue' = Append(event_queue, event)
    /\ UNCHANGED << setup, lms, self, pc, progress, outcome, now,
                    discovery_queue, connect_result, signal_pending, ntasks,
                    running, chan_parked >>
    /\ UNCHANGED ghostVars

\* Time passes.  The program reads the clock only when it finds its protocol
\* task completed, so the clock is advanced only when that is about to happen.
Tick ==
    /\ Alive
    /\ self.spirc_task # None
    /\ ~(self.spirc_task \subseteq running)
    /\ Inputs < MaxInputs
    /\ \E d \in TickSteps : now' = now + d
    /\ UNCHANGED << setup, lms, self, pc, progress, outcome, discovery_queue,
                    connect_result, signal_pending, ntasks, running,
                    event_queue, chan_parked, nevents >>
    /\ UNCHANGED ghostVars

Next ==
    \/ MainAuthenticate
    \/ Pass
    \/ HttpReturns
    \/ DiscoveryEvent
    \/ SignalArrives
    \/ ConnectCompletes
    \/ TaskCompletes
    \/ PlayerEvent(PlainEvents)
    \/ Tick

Spec == Init /\ [][Next]_vars

\* The program with discovery and authenticate off, under every setting of
\* the notifier.
NextNotifier ==
    \/ Pass
    \/ HttpReturns
    \/ SignalArrives
    \/ ConnectCompletes
    \/ TaskCompletes
    \/ PlayerEvent(PlayerEvents)
    \/ Tick

SpecNotifier == InitNotifier /\ [][NextNotifier]_vars

TypeOK ==
    /\ pc \in {"main_authenticate", "running", "suspended", "http", "done"}
    /\ outcome \in {"none", "ok", "panic"}
    /\ Cardinality(self.spirc) <= 1
    /\ Cardinality(self.spirc_task) <= 1

\* ------------------------------------------------------------ claims
Terminated == pc = "done"

\* C1: the orchestrator owns at most one protocol task and one control handle,
\* every protocol task that still runs and was not handed off is the owned
\* one, and every task handed off by Main::credentials (superseded) had its
\* control handle asked to shut down by the time the new connect was started.
C1_OneLivePair ==
    /\ Cardinality(self.spirc) <= 1
    /\ Cardinality(self.spirc_task) <= 1
    /\ self.spirc_task \subseteq self.spirc
    /\ (running \ spawned) \subseteq self.spirc_task
    /\ spawned \subseteq shutdown_asked

\* A superseded task still runs detached beside the new owned task.
C1_Witness ==
    /\ spawned \cap running # {}
    /\ self.spirc_task # None
    /\ self.spirc_task \subseteq running
    /\ self.spirc_task \cap spawned = {}

\* Whether a log of times holds RateLimit + 1 entries no more than Window
\* seconds apart.
ExceedsRate(log) ==
    \E i \in 1..Len(log) :
        /\ i + RateLimit <= Len(log)
        /\ log[i + RateLimit] - log[i] < Window

\* C2 as stated: no 600-second window holds more than 5 automatic reconnects.
C2_AtMostFivePerWindow == ~ExceedsRate(attempts)

\* C2 as amended: among the automatic reconnects started since the last
\* discovery event was handled, no 600-second window holds more than 5.
C2_AtMostFiveSinceDiscovery == ~ExceedsRate(attempts_since_discovery)

\* Five automatic reconnects were admitted and a sixth drop was refused.
C2_Witness ==
    /\ Len(attempts_since_discovery) = RateLimit
    /\ Len(drops_since_discovery) = RateLimit + 1
    /\ self.spirc_task = None
    /\ self.connect = None

\* C3: once a discovery event has been handled and until the next drop, the
\* reconnect history is empty; and the first unexpected drop after a discovery
\* event is admitted: an automatic reconnect is logged for it.
C3_DiscoveryResets ==
    ndiscovered > 0 =>
        /\ drops_since_discovery = << >> => self.auto_connect_times = << >>
        /\ drops_since_discovery # << >> => attempts_since_discovery # << >>

\* Five reconnects at time 0 used the budget up, a discovery event followed,
\* and the drop of the session it led to was admitted.
C3_Witness ==
    /\ ndiscovered = 1
    /\ now = 0
    /\ Len(attempts) = RateLimit + 1
    /\ Len(attempts_since_discovery) = 1
    /\ Len(self.auto_connect_times) = 1

\* C4: once the loop has observed two shutdown signals it has terminated.
C4_SecondSignalTerminates == signals_seen >= 2 => Terminated

\* The second signal ended the program while its protocol task still ran,
\* after a discovery event in between.
C4_Witness ==
    /\ signals_seen = 2
    /\ ndiscovered >= 1
    /\ outcome = "ok"
    /\ self.shutdown
    /\ self.spirc_task # None
    /\ self.spirc_task \subseteq running

\* The state in which the signal branch of the coming pass runs.
AtSignal == ConnectBranch(DiscoveryBranch(PassState))

\* The state in which the task branch of the coming pass runs.
AtTask == SignalBranch(AtSignal)

\* C5: in the pass that observes the first shutdown signal, if a protocol task
\* is owned the orchestrator asks it to shut down and is ShuttingDown, and
\* terminates in that pass only when that task has completed; if no protocol
\* task is owned the orchestrator terminates in that pass, cleanly.
C5_FirstSignal ==
    [][ (signals_seen = 0 /\ signals_seen' = 1) =>
            IF AtSignal.self.spirc_task # None
            THEN /\ self'.shutdown
                 /\ AtSignal.self.spirc_task \subseteq shutdown_asked'
                 /\ Terminated' => ~(AtSignal.self.spirc_task \subseteq running)
            ELSE Terminated' /\ outcome' = "ok"
      ]_vars

\* The coming pass polls a connect that has succeeded.
SeesConnectOk ==
    /\ DiscoveryBranch(PassState).self.connect # None
    /\ DiscoveryBranch(PassState).connect_result = "ok"

\* C6: in authenticate-only mode no protocol task is ever spawned, no player
\* event is ever forwarded and no HTTP call is ever issued, and the first
\* connect that is seen to have succeeded ends the program cleanly.
C6_AuthenticateOnly ==
    [][ setup.authenticate =>
            /\ ntasks = 0 /\ ntasks' = 0
            /\ forwarded' = 0
            /\ http_calls' = 0
            /\ self'.spirc_task = None
            /\ (Pass /\ SeesConnectOk) => (Terminated' /\ outcome' = "ok")
            /\ (MainAuthenticate /\ connect_result = "ok")
                   => (Terminated' /\ outcome' = "ok")
      ]_vars

\* Authenticate-only with discovery: credentials from a discovery event were
\* validated and the program ended cleanly.
C6_Witness ==
    /\ setup.authenticate
    /\ ndiscovered >= 1
    /\ self.last_credentials \subseteq DiscoveryCredentials
    /\ self.shutdown
    /\ Terminated
    /\ outcome = "ok"

\* The entries of a history that are not older than Window seconds at time t.
Recent(times, t) == SelectSeq(times, LAMBDA x : t - x <= Window)

\* The coming pass finds the owned protocol task completed while not
\* shutting down, with last-known credentials.
DropSeen ==
    /\ pc \in {"running", "suspended"}
    /\ self.spirc_task # None
    /\ ~(self.spirc_task \subseteq running)
    /\ \E m \in {AtTask} :
           /\ m.ret = "none"
           /\ m.self.spirc_task # None
           /\ ~(m.self.spirc_task \subseteq m.running)
           /\ ~m.self.shutdown
           /\ m.self.last_credentials # None

\* Six drops within 60 seconds, counted from an empty history, gave exactly
\* five automatic reconnects and left the orchestrator disconnected.
SixDrops ==
    ( /\ Len(drops_since_discovery) = RateLimit + 1
      /\ drops_since_discovery[RateLimit + 1] - drops_since_discovery[1] <= 60 )
    => /\ Len(attempts_since_discovery) = RateLimit
       /\ self.connect = None
       /\ self.spirc_task = None

\* C8: on an unexpected drop, with fewer than 5 entries not older than 600
\* seconds the current time is appended to them and a connect with the
\* last-known credentials is started; with 5 or more nothing is started and
\* the history stays as it is.  Without connect and protocol task the
\* orchestrator stays so until a discovery event is handled.  Six drops
\* within 60 seconds give exactly five automatic reconnects.
C8_ReconnectPolicy ==
    [][ /\ (DropSeen /\ Pass) =>
               \E m \in {AtTask} : \E kept \in {Recent(m.self.auto_connect_times, now)} :
                   IF Len(kept) < RateLimit
                   THEN /\ self'.auto_connect_times = Append(kept, now)
                        /\ self'.connect = m.self.last_credentials
                        /\ connect_result' = "pending"
                        /\ self'.spirc_task = None
                   ELSE /\ self'.auto_connect_times = m.self.auto_connect_times
                        /\ self'.connect = None
                        /\ self'.spirc_task = None
        /\ (self.connect = None /\ self.spirc_task = None /\ ndiscovered' = ndiscovered)
               => (self'.connect = None /\ self'.spirc_task = None)
        /\ SixDrops'
      ]_vars

\* Six drops at the same instant: five reconnects, the sixth refused, nothing
\* in flight.
C8_Witness ==
    /\ Len(drops_since_discovery) = RateLimit + 1
    /\ drops_since_discovery[RateLimit + 1] = drops_since_discovery[1]
    /\ Len(self.auto_connect_times) = RateLimit
    /\ self.connect = None
    /\ self.spirc_task = None
    /\ ~Terminated

\* C9: the terminal state is absorbing and its outcome is reported once: after
\* termination the program stays terminated with the same outcome, starts no
\* connect, consumes no discovery event and no signal, spawns no protocol
\* task, forwards no player event and issues no HTTP call.
C9_TerminalAbsorbing ==
    [][ /\ (outcome # "none") = Terminated
        /\ Terminated =>
               /\ Terminated'
               /\ outcome' = outcome
               /\ self' = self
               /\ connect_result' = connect_result
               /\ ndiscovered' = ndiscovered
               /\ Len(discovery_queue') >= Len(discovery_queue)
               /\ signals_seen' = signals_seen
               /\ ntasks' = ntasks
               /\ forwarded' = forwarded
               /\ http_calls' = http_calls
      ]_vars

\* After a clean end a discovery event and a signal wait, unconsumed.
C9_Witness ==
    /\ Terminated
    /\ outcome = "ok"
    /\ discovery_queue # << >>
    /\ signal_pending > 0

\* C10: the notifier is configured exactly when address and player are both
\* present; configured, every forwarded player event gave one HTTP call; not
\* configured, no HTTP call was issued.
C10_Notifier ==
    /\ is_configured(lms) <=> (lms.base_url # None /\ lms.player_mac # None)
    /\ is_configured(lms) => http_calls = forwarded
    /\ ~is_configured(lms) => http_calls = 0

\* Two player events went through a configured notifier.
C10_Witness ==
    /\ is_configured(lms)
    /\ forwarded = 2
    /\ http_calls = 2

\* The command the notifier is to send for an event.
ExpectedCommand(event) ==
    CASE event.kind = "Started" -> << "spottyconnect", "start", event.track_id >>
      [] event.kind = "Stopped" -> << "spottyconnect", "stop" >>
      [] event.kind = "Changed" ->
             << "spottyconnect", "change", event.new_track_id, event.old_track_id >>
      [] event.kind = "Volume"  -> << "spottyconnect", "volume", event.volume >>
      [] event.kind = "Seek"    -> << "spottyconnect", "change" >>

\* C11: for every event that waits to be forwarded, a configured notifier
\* sends the body {id: 1, method: slim.request, params: [mac, command]} with
\* the command start+track, stop, change+new+old, volume+level, or change
\* alone for a seek.
C11_CommandMapping ==
    \A i \in 1..Len(event_queue) :
        is_configured(lms) =>
            signal_event(lms, event_queue[i]) =
                Some([ id |-> 1, method |-> "slim.request",
                       params |-> << The(lms.player_mac),
                                     ExpectedCommand(event_queue[i]) >> ])

\* LMS::request has issued a POST that is neither answered nor failed.
CallOutstanding == pc = "http"

\* C12: while a notification call is outstanding, the loop can run a pass
\* whenever a discovery event, the completion of the connect, a shutdown
\* signal or the completion of the protocol task is ready.
C12_NeverBlocks ==
    (CallOutstanding /\ SourceReady) => ENABLED Pass

\* The state in which the connect branch of the coming pass runs.
AtConnect == DiscoveryBranch(PassState)

\* The coming pass polls a connect that was started by the reconnect policy
\* and has failed, while the history holds fewer than RateLimit recent entries.
AutoReconnectFailed ==
    /\ pc \in {"running", "suspended"}
    /\ \E m \in {AtConnect} :
           /\ m.self.connect # None
           /\ m.connect_result = "err"
           /\ m.attempts_since_discovery # << >>
           /\ Len(Prune(m.self.auto_connect_times, now)) < RateLimit

\* C13: the pass that finds an automatic reconnect failed, with retry budget
\* left, does not end the program and reports no error.
C13_ConnectFailureAbsorbed ==
    [][ (AutoReconnectFailed /\ Pass) => (~Terminated' /\ outcome' = "none") ]_vars

\* The program can go on by itself: a pass can run, an HTTP call can return,
\* or the connect in flight can resolve.
CanGoOn == ENABLED (Pass \/ HttpReturns \/ ConnectCompletes)

\* C14: once a shutdown signal has been received and every protocol task that
\* was asked to shut down has completed, the program has ended cleanly or can
\* still go on by itself; it is never left waiting for nothing, and never
\* ended otherwise than cleanly.
C14_OrderlyShutdown ==
    (signals_seen >= 1 /\ shutdown_asked \cap running = {}) =>
        \/ Terminated /\ outcome = "ok"
        \/ ~Terminated /\ CanGoOn

\* The step starts a connect: for a discovery event it consumes, or as an
\* automatic reconnect.
StartsConnect ==
    /\ self'.connect # None
    /\ (ndiscovered' # ndiscovered \/ attempts' # attempts)

\* C15: once shutdown has been requested, no step starts a connect or spawns
\* a protocol task, and the request stands: the program only goes on to end.
C15_ShuttingDownFinal ==
    [][ (self.shutdown /\ ~Terminated) =>
            /\ ~StartsConnect
            /\ ntasks' = ntasks
            /\ self'.shutdown
      ]_vars

\* A discovery event and the completion of the connect in flight are both
\* ready when the coming pass starts.
BothReady ==
    /\ pc \in {"running", "suspended"}
    /\ setup.enable_discovery
    /\ discovery_queue # << >>
    /\ self.connect # None
    /\ connect_result # "pending"

\* C16: a pass that starts with a discovery event and the completion of the
\* connect in flight both ready spawns no protocol task and leaves in flight,
\* unresolved, the connect for the discovered credentials and no other.
C16_DiscoveryPreempts ==
    [][ (BothReady /\ Pass) =>
            /\ ntasks' = ntasks
            /\ self'.spirc_task = None
            /\ self'.connect = Some(Head(discovery_queue))
            /\ self'.last_credentials = Some(Head(discovery_queue))
            /\ connect_result' = "pending"
            /\ outcome' # "panic"
      ]_vars

\* A succeeded connect for the credentials of the command line and a
\* discovery event are ready together, and the pass can run.
C16_Witness ==
    /\ BothReady
    /\ connect_result = "ok"
    /\ self.connect = Some(SetupCredentials)
    /\ ENABLED Pass

\* A shutdown signal and the completion of the owned protocol task are both
\* ready when the coming pass starts.
SignalAndCompletion ==
    /\ pc \in {"running", "suspended"}
    /\ signal_pending > 0
    /\ self.spirc_task # None
    /\ ~(self.spirc_task \subseteq running)

\* The task branch of the coming pass finds the owned protocol task completed
\* while shutdown is set.
CompletionWhileShuttingDown ==
    /\ pc \in {"running", "suspended"}
    /\ self.spirc_task # None
    /\ ~(self.spirc_task \subseteq running)
    /\ (self.shutdown \/ signal_pending > 0)
    /\ \E m \in {AtTask} :
           /\ m.ret = "none"
           /\ m.self.shutdown
           /\ m.self.spirc_task # None
           /\ ~(m.self.spirc_task \subseteq m.running)

\* C17: a pass that starts with a shutdown signal and the completion of the
\* owned protocol task both ready, and any pass whose task branch finds the
\* owned task completed while shutting down, ends the program cleanly, makes
\* no automatic reconnect and appends nothing to the reconnect history.
C17_SignalBeforeCompletion ==
    [][ ((SignalAndCompletion \/ CompletionWhileShuttingDown) /\ Pass) =>
            /\ Terminated'
            /\ outcome' = "ok"
            /\ attempts' = attempts
            /\ Len(self'.auto_connect_times) <= Len(self.auto_connect_times)
      ]_vars

\* The protocol task has completed unasked and the first signal waits, with
\* reconnects still allowed: the pass can run.
C17_Witness ==
    /\ SignalAndCompletion
    /\ ~self.shutdown
    /\ signals_seen = 0
    /\ self.last_credentials # None
    /\ ~TooOften(self.auto_connect_times)
    /\ ENABLED Pass

\* C18: the loop never suspends while an event that was already produced
\* waits in the channel: a pass that ends with NotReady, directly or after
\* the HTTP call of its event returned, has left the channel empty.
C18_EventsDrained ==
    [][ ((Pass \/ HttpReturns) /\ pc' = "suspended") => event_queue' = << >> ]_vars

\* C19: while a notification call is outstanding and when it returns, failed
\* or answered, the orchestrator's state (session, protocol task, pending
\* connect, shutdown flag, reconnect history, last credentials) stays as it
\* is, nothing is reported, and no further HTTP call is issued for the event:
\* there is never more than one call per forwarded event.
C19_FailureIgnored ==
    [][ /\ CallOutstanding =>
               /\ self' = self
               /\ outcome' = outcome
               /\ http_calls' = http_calls
               /\ forwarded' = forwarded
               /\ pc' \in {"http", "running", "suspended"}
        /\ http_calls' <= forwarded'
      ]_vars

\* The call for the one event forwarded so far has returned, and the
\* orchestrator still owns its running protocol task.
C19_Witness ==
    /\ http_calls = 1
    /\ forwarded = 1
    /\ pc \in {"running", "suspended"}
    /\ self.spirc_task # None
    /\ self.spirc_task \subseteq running

\* C20 as stated: last_credentials is absent or holds the credentials of the
\* most recent connect that succeeded.
C20_LastIsLatestSucceeded ==
    self.last_credentials = None \/ self.last_credentials = succeeded

\* C20, amended: last_credentials holds the credentials of the connect that
\* Main started most recently.  While that connect is in flight they are
\* retained already; with no connect in flight last_credentials is absent or
\* holds the credentials of the most recent connect that succeeded.
C20_LastIsLatestStarted ==
    /\ (~AuthenticateOnly(setup) /\ self.connect # None)
           => self.last_credentials = self.connect
    /\ self.connect = None
           => (self.last_credentials = None \/ self.last_credentials = succeeded)

\* The connect for discovered credentials is in flight after the connect for
\* the credentials of the command line succeeded: the former are retained.
C20_Witness ==
    /\ succeeded = Some(SetupCredentials)
    /\ self.connect \subseteq DiscoveryCredentials
    /\ self.connect # None
    /\ self.last_credentials = self.connect
    /\ connect_result = "pending"

\* C21: a connect in flight and an owned protocol task never coexist, and
\* whenever a protocol task is owned, its control handle is owned too and
\* last_credentials is present.
C21_OwnedTaskShape ==
    /\ ~(self.connect # None /\ self.spirc_task # None)
    /\ self.spirc_task # None =>
           /\ self.spirc = self.spirc_task
           /\ self.last_credentials # None

\* A protocol task is owned and runs, after an unexpected drop and an
\* automatic reconnect, and after a discovery event as well.
C21_Witness ==
    /\ self.spirc_task # None
    /\ self.spirc_task \subseteq running
    /\ attempts # << >>
    /\ ndiscovered >= 1

\* C22: a step that starts an automatic reconnect starts it with the
\* credentials of the latest connect that succeeded, which established the
\* session of the protocol task that just dropped, and no connect succeeded
\* in that step.
C22_ReconnectCredentials ==
    [][ attempts' # attempts =>
            /\ self'.connect # None
            /\ self'.connect = succeeded
            /\ succeeded' = succeeded
            /\ connect_result' = "pending"
      ]_vars

\* An automatic reconnect is in flight for a session that was established
\* with discovered credentials, not with those of the command line.
C22_Witness ==
    /\ setup.credentials = Some(SetupCredentials)
    /\ ndiscovered >= 1
    /\ attempts_since_discovery # << >>
    /\ self.connect # None
    /\ self.connect \subseteq DiscoveryCredentials
    /\ succeeded = self.connect
    /\ connect_result = "pending"

\* What one pass of Main::poll makes of the state ps.
PollOf(ps) ==
    EventsBranch(TaskBranch(SignalBranch(ConnectBranch(DiscoveryBranch(ps))), now))

\* The pass from the present state, with the detached task t completed,
\* does to the orchestrator what it does with t still running.
Unobserved(t) ==
    \E a \in {PollOf([PassState EXCEPT !.running = @ \cup {t}])} :
    \E b \in {PollOf([PassState EXCEPT !.running = @ \ {t}])} :
        /\ a.self = b.self
        /\ a.ret = b.ret
        /\ a.progress = b.progress
        /\ a.connect_result = b.connect_result
        /\ a.attempts = b.attempts
        /\ a.ntasks = b.ntasks

\* C23: a protocol task handed to handle.spawn is not owned any more, and its
\* completion is not observed: whether it has completed or not, the pass
\* starts the same connects, appends the same to the reconnect history, ends
\* the program or not alike and leaves the same session, protocol task and
\* connect in flight.
C23_DetachedUnobserved ==
    /\ spawned \cap self.spirc_task = {}
    /\ Alive => \A t \in spawned : Unobserved(t)

\* A protocol task superseded by a discovery event has completed while the
\* protocol task of the new session is owned and runs, and the loop has
\* suspended.
C23_Witness ==
    /\ ndiscovered >= 1
    /\ \E t \in spawned : t \notin running
    /\ self.spirc_task # None
    /\ self.spirc_task \subseteq running
    /\ self.connect = None
    /\ pc = "suspended"
    /\ attempts = << >>
    /\ ~self.shutdown

=============================================================================
